---- MODULE Spec2Model ----
(***************************************************************************)
(* A model of weather.py: one run of the command-line pipeline             *)
(*   import modules -> read_user_cli_args -> build_weather_query           *)
(*   (-> _get_api_key) -> get_weather_data -> display_weather_info.        *)
(*                                                                         *)
(* Text is a sequence of tokens.  A token is one character ("a", " ",      *)
(* "%") or, for text the program never takes apart, one fixed phrase       *)
(* ("Access denied.  Check your API key.").  The two non-ASCII characters  *)
(* of line 158 are written "U+00C2" and "U+00B0".                          *)
(***************************************************************************)
EXTENDS Integers, Sequences, FiniteSets, TLC

\* ------------------------------------------------------------------ bounds

\* Longest city name (characters, summed over its words) in SpecQuery.
MaxCityChars == 3
\* Most words of a city name in SpecQuery.
MaxWords == 2
\* Largest weather condition code in Spec (the table ends at 899).
MaxCode == 910

\* ------------------------------------------------------------ text helpers

RECURSIVE Flatten(_)
\* The concatenation of a sequence of texts.
Flatten(ss) == IF ss = <<>> THEN <<>> ELSE Head(ss) \o Flatten(Tail(ss))

\* needle occurs in hay as a contiguous run of tokens.
Contains(hay, needle) ==
    \E i \in 0..(Len(hay) - Len(needle)) :
        \A j \in 1..Len(needle) : hay[i + j] = needle[j]

\* hay starts with pre.
StartsWith(hay, pre) ==
    /\ Len(pre) <= Len(hay)
    /\ \A j \in 1..Len(pre) : hay[j] = pre[j]

LowerLetters ==
    <<"a", "b", "c", "d", "e", "f", "g", "h", "i", "j", "k", "l", "m",
      "n", "o", "p", "q", "r", "s", "t", "u", "v", "w", "x", "y", "z">>
UpperLetters ==
    <<"A", "B", "C", "D", "E", "F", "G", "H", "I", "J", "K", "L", "M",
      "N", "O", "P", "Q", "R", "S", "T", "U", "V", "W", "X", "Y", "Z">>
Digits == <<"0", "1", "2", "3", "4", "5", "6", "7", "8", "9">>

Range(f) == {f[i] : i \in DOMAIN f}

RECURSIVE Spaces(_)
Spaces(n) == IF n <= 0 THEN <<>> ELSE <<" ">> \o Spaces(n - 1)

Digit(d) == Digits[d + 1]

RECURSIVE NatStr(_)
NatStr(n) == IF n < 10 THEN <<Digit(n)>> ELSE NatStr(n \div 10) \o <<Digit(n % 10)>>

\* Python's str() of an int.
IntStr(n) == IF n < 0 THEN <<"-">> \o NatStr(0 - n) ELSE NatStr(n)

\* ----------------------------------------------------------- JSON values

\* A decoded JSON value as the program sees it: an absent key, null, an
\* int or a str.  Every value has the three fields so that values compare.
Missing == [t |-> "missing", n |-> 0, s |-> <<>>]
Null == [t |-> "null", n |-> 0, s |-> <<>>]
IntV(n) == [t |-> "int", n |-> n, s |-> <<>>]
StrV(s) == [t |-> "str", n |-> 0, s |-> s]

\* ------------------------------------------------------ program constants

\* The base URL of every API call, split where urlopen splits it: the
\* scheme and host, then the path.
BASE_WEATHER_API_URL == <<"http://api.openweathermap.org", "/data/2.5/weather">>

\* Weather condition codes: Python's range(lo, hi) is lo..hi-1.
THUNDERSTORM == 200..299
DRIZZLE == 300..399
RAIN == 500..599
SNOW == 600..699
ATMOSPHERE == 700..799
CLEAR == 800..800
CLOUDY == 801..899

\* ---------------------------------------------------------------- style
\* The style module is imported by weather.py (line 7) and is not part of
\* the sources; it is modelled from the specification's terminal interface:
\* named styles, a fixed display width, and change_colour, which makes the
\* named style the terminal's current one.

REVERSE == <<"REVERSE">>
RESET == <<"RESET">>
RED == <<"RED">>
CYAN == <<"CYAN">>
BLUE == <<"BLUE">>
WHITE == <<"WHITE">>
YELLOW == <<"YELLOW">>
PADDING == 4

\* A terminal event: a style change or a run of text.
change_colour(colour) == [k |-> "style", v |-> colour]
print(text) == [k |-> "text", v |-> text]

\* ------------------------------------------------------------ environment

VARIABLES
    argv,           \* the command line: [city, imperial, help]
    tk_available,   \* whether the turtle module (it needs tkinter) imports
    secrets,        \* secrets.ini: [file, section, field, raw]
    pc,             \* position in the run
    user_args,      \* the Namespace read_user_cli_args returned
    query_url,      \* the URL build_weather_query returned
    net,            \* what get_weather_data did on the network
    weather_data,   \* the object get_weather_data returned
    stdout,         \* terminal events written to standard output
    stderr,         \* text written to standard error
    exit_code       \* the process's exit status, -1 while it runs

vars == <<argv, tk_available, secrets, pc, user_args, query_url, net,
          weather_data, stdout, stderr, exit_code>>

\* What an uncaught exception writes to standard error.
Traceback(exc, msg) == <<"Traceback (most recent call last):", exc, ": ">> \o msg

\* --------------------------------------------------------- _get_api_key

\* config["openweather"]["api_key"] on the file as it is: [exc, msg, value].
\* config.read ignores a file that does not exist, so a missing file is a
\* missing section.  ConfigParser interpolates values: a "%" in the raw value
\* raises (the raw values modelled hold no "%%" and no "%(").
_get_api_key ==
    IF ~secrets.file \/ ~secrets.section
    THEN [exc |-> "KeyError", msg |-> <<"'openweather'">>, value |-> <<>>]
    ELSE IF ~secrets.field
    THEN [exc |-> "KeyError", msg |-> <<"'api_key'">>, value |-> <<>>]
    ELSE IF \E i \in 1..Len(secrets.raw) : secrets.raw[i] = "%"
    THEN LET i == CHOOSE i \in 1..Len(secrets.raw) :
                      /\ secrets.raw[i] = "%"
                      /\ \A j \in 1..(i - 1) : secrets.raw[j] # "%"
         IN [exc |-> "InterpolationSyntaxError",
             msg |-> <<"'%' must be followed by '%' or '(', found: '">>
                     \o SubSeq(secrets.raw, i, Len(secrets.raw)) \o <<"'">>,
             value |-> <<>>]
    ELSE [exc |-> "none", msg |-> <<>>, value |-> secrets.raw]

\* ---------------------------------------------------- read_user_cli_args

UsageText == <<"usage: weather.py [-h] [-i] city [city ...]">>

\* parse_args whose usage error leaves with status 0.
read_user_cli_args_error_zero ==
    IF argv.help \/ argv.city = <<>>
    THEN [exit |-> 0, out |-> UsageText, err |-> <<>>, city |-> <<>>,
          imperial |-> FALSE]
    ELSE [exit |-> -1, out |-> <<>>, err |-> <<>>,
          city |-> argv.city, imperial |-> argv.imperial]

\* parser.parse_args() on argv: [exit, out, err, city, imperial]; exit is -1
\* when it returns a Namespace.  -h/--help prints the help and exits 0 as
\* soon as it is parsed; nargs="+" with no city is an error, exit status 2.
read_user_cli_args ==
    IF argv.help
    THEN [exit |-> 0,
          out |-> UsageText \o <<"gets weather and temperature information for a city">>,
          err |-> <<>>, city |-> <<>>, imperial |-> FALSE]
    ELSE IF argv.city = <<>>
    THEN [exit |-> 2, out |-> <<>>,
          err |-> UsageText
                  \o <<"weather.py: error: the following arguments are required: city">>,
          city |-> <<>>, imperial |-> FALSE]
    ELSE [exit |-> -1, out |-> <<>>, err |-> <<>>,
          city |-> argv.city, imperial |-> argv.imperial]

\* --------------------------------------------------- build_weather_query

RECURSIVE Join(_)
\* " ".join(words)
Join(words) ==
    IF words = <<>> THEN <<>>
    ELSE IF Len(words) = 1 THEN words[1]
    ELSE words[1] \o <<" ">> \o Join(Tail(words))

\* Characters quote_plus leaves alone: letters, digits and "_.-~".
Unreserved ==
    Range(LowerLetters) \cup Range(UpperLetters) \cup Range(Digits)
    \cup {"_", ".", "-", "~"}

\* quote_plus that leaves a literal "+" as it is.
QuoteChar_plus_kept(c) ==
    CASE c = " " -> <<"+">>
      [] c = "&" -> <<"%", "2", "6">>
      [] c = "=" -> <<"%", "3", "D">>
      [] c = "%" -> <<"%", "2", "5">>
      [] c = "/" -> <<"%", "2", "F">>
      [] c \in Unreserved \cup {"+"} -> <<c>>

\* urllib.parse.quote_plus on one character: a space becomes "+", a reserved
\* character its %XX escape.
QuoteChar(c) ==
    CASE c = " " -> <<"+">>
      [] c = "+" -> <<"%", "2", "B">>
      [] c = "&" -> <<"%", "2", "6">>
      [] c = "=" -> <<"%", "3", "D">>
      [] c = "%" -> <<"%", "2", "5">>
      [] c = "/" -> <<"%", "2", "F">>
      [] c \in Unreserved -> <<c>>

quote_plus(s) == Flatten([i \in 1..Len(s) |-> QuoteChar(s[i])])

\* build_weather_query that builds the URL whether or not a key was loaded.
build_weather_query_unchecked(city_input, imperial) ==
    [exc |-> "none", msg |-> <<>>,
     url |-> BASE_WEATHER_API_URL \o <<"?", "q", "=">>
             \o quote_plus(Join(city_input))
             \o <<"&", "units", "=", IF imperial THEN "imperial" ELSE "metric">>
             \o <<"&", "appid", "=">> \o _get_api_key.value]

\* build_weather_query(city_input, imperial): [exc, msg, url].  The key is
\* loaded first; when that raises nothing else is evaluated.
build_weather_query(city_input, imperial) ==
    LET api_key == _get_api_key
        city_name == Join(city_input)
        url_encoded_city_name == quote_plus(city_name)
        units == IF imperial THEN "imperial" ELSE "metric"
    IN IF api_key.exc # "none"
       THEN [exc |-> api_key.exc, msg |-> api_key.msg, url |-> <<>>]
       ELSE [exc |-> "none", msg |-> <<>>,
             url |-> BASE_WEATHER_API_URL \o <<"?", "q", "=">>
                     \o url_encoded_city_name
                     \o <<"&", "units", "=", units>>
                     \o <<"&", "appid", "=">> \o api_key.value]

\* ------------------------------------------------------ get_weather_data

\* A decoded response body: kind "dict" is a JSON object with the fields the
\* program reads, kind "nondict" any other JSON value, kind "none" no data.
\* temp stands for ["main"]["temp"], country for ["sys"]["country"];
\* has_weather is FALSE when the "weather" key is absent.
NoData ==
    [kind |-> "none", name |-> Missing, has_weather |-> FALSE, weather |-> <<>>,
     temp |-> Missing, country |-> Missing]

\* request.urlopen raises http.client.InvalidURL, before it connects, when
\* the request target holds a space or a control character.
HasControlChar(target) == \E i \in 1..Len(target) : target[i] = " "

\* The request target: the URL after its scheme and host.
RequestTarget(url) == SubSeq(url, 2, Len(url))

\* get_weather_data(query_url) when the network answers with reply:
\* [kind, status, body, data], kind "transport" when no HTTP status is
\* received.  The result says how the call ends (how: "return", "exit" for
\* sys.exit(text), "raise" for an exception nothing catches), what reaches
\* standard error, and what was done on the way.
get_weather_data(url, reply) ==
    LET base == [how |-> "raise", exc |-> "", text |-> <<>>, data |-> NoData,
                 sent |-> TRUE, status |-> 0, body_read |-> FALSE,
                 parsed |-> FALSE]
    IN IF HasControlChar(RequestTarget(url))
       THEN [base EXCEPT !.exc = "InvalidURL", !.sent = FALSE,
                  !.text = <<"URL can't contain control characters. '">>
                           \o RequestTarget(url) \o <<"' (found at least ' ')">>]
       ELSE IF reply.kind = "transport"
       THEN [base EXCEPT !.exc = "URLError",
                         !.text = <<"<urlopen error [Errno -2] Name or service not known>">>]
       ELSE IF reply.status \notin 200..299
       THEN IF reply.status = 401
            THEN [base EXCEPT !.how = "exit", !.status = reply.status,
                              !.text = <<"Access denied.  Check your API key.">>]
            ELSE IF reply.status = 404
            THEN [base EXCEPT !.how = "exit", !.status = reply.status,
                              !.text = <<"Can't find weather data for this city.">>]
            ELSE [base EXCEPT !.how = "exit", !.status = reply.status,
                              !.text = <<"Something went wrong... (">>
                                       \o IntStr(reply.status) \o <<")">>]
       ELSE IF reply.body = "json"
       THEN [base EXCEPT !.how = "return", !.status = reply.status,
                         !.body_read = TRUE, !.parsed = TRUE,
                         !.data = reply.data]
       ELSE IF reply.body = "malformed"
       THEN [base EXCEPT !.how = "exit", !.status = reply.status,
                         !.body_read = TRUE,
                         !.text = <<"Couldn't read the server response.">>]
       ELSE [base EXCEPT !.exc = "UnicodeDecodeError", !.status = reply.status,
                         !.body_read = TRUE,
                         !.text = <<"'utf-8' codec can't decode byte 0xff in position 0: invalid start byte">>]

\* -------------------------------------------------- display_weather_info

Upper(c) ==
    IF \E i \in 1..Len(LowerLetters) : LowerLetters[i] = c
    THEN UpperLetters[CHOOSE i \in 1..Len(LowerLetters) : LowerLetters[i] = c]
    ELSE c
Lower(c) ==
    IF \E i \in 1..Len(UpperLetters) : UpperLetters[i] = c
    THEN LowerLetters[CHOOSE i \in 1..Len(UpperLetters) : UpperLetters[i] = c]
    ELSE c

\* str.capitalize(): the first character upper-cased, the rest lower-cased.
capitalize(s) ==
    [i \in 1..Len(s) |-> IF i = 1 THEN Upper(s[i]) ELSE Lower(s[i])]

\* format(s, "^PADDING"): s centred in PADDING columns, the odd space on the
\* right; a longer s is left as it is.
Center(s) ==
    IF Len(s) >= PADDING THEN s
    ELSE LET pad == PADDING - Len(s)
         IN Spaces(pad \div 2) \o s \o Spaces(pad - (pad \div 2))

\* str(v) of a decoded value.
Str(v) == IF v.t = "int" THEN IntStr(v.n)
          ELSE IF v.t = "str" THEN v.s
          ELSE <<"None">>

\* weather_id in range(...): only an int is a member of a range.
InRange(weather_id, codes) == weather_id.t = "int" /\ weather_id.n \in codes

\* The chain of lines 136-151 with CLEAR read as range(800, 802).
colour_of_clear_wide(weather_id) ==
    IF InRange(weather_id, THUNDERSTORM) THEN RED
    ELSE IF InRange(weather_id, DRIZZLE) THEN CYAN
    ELSE IF InRange(weather_id, RAIN) THEN BLUE
    ELSE IF InRange(weather_id, SNOW) THEN WHITE
    ELSE IF InRange(weather_id, ATMOSPHERE) THEN BLUE
    ELSE IF InRange(weather_id, 800..801) THEN YELLOW
    ELSE IF InRange(weather_id, CLOUDY) THEN WHITE
    ELSE RESET

\* The if/elif chain of lines 136-151: the style handed to change_colour.
colour_of(weather_id) ==
    IF InRange(weather_id, THUNDERSTORM) THEN RED
    ELSE IF InRange(weather_id, DRIZZLE) THEN CYAN
    ELSE IF InRange(weather_id, RAIN) THEN BLUE
    ELSE IF InRange(weather_id, SNOW) THEN WHITE
    ELSE IF InRange(weather_id, ATMOSPHERE) THEN BLUE
    ELSE IF InRange(weather_id, CLEAR) THEN YELLOW
    ELSE IF InRange(weather_id, CLOUDY) THEN WHITE
    ELSE RESET

\* The temperature line of line 158; its literal holds the two characters
\* U+00C2 and U+00B0 between the value and the unit letter.
temperature_line(temperature, imperial) ==
    <<"(">> \o Str(temperature) \o <<"U+00C2", "U+00B0">>
    \o <<IF imperial THEN "F" ELSE "C">> \o <<")", "\n">>

\* Lines 130-158 with the reset of line 156 issued before the description
\* is printed instead of after it.
display_events_reset_early(city, weather_id, weather_description, temperature, imperial) ==
    <<change_colour(REVERSE),
      print(Center(Str(city))),
      change_colour(RESET),
      change_colour(colour_of(weather_id)),
      change_colour(RESET),
      print(<<"\t">> \o Center(capitalize(weather_description.s)) \o <<" ">>),
      print(temperature_line(temperature, imperial))>>

\* Lines 130-158: the terminal events of a call that runs to its end, in the
\* order the statements issue them.
display_events(city, weather_id, weather_description, temperature, imperial) ==
    <<change_colour(REVERSE),
      print(Center(Str(city))),
      change_colour(RESET),
      change_colour(colour_of(weather_id)),
      print(<<"\t">> \o Center(capitalize(weather_description.s)) \o <<" ">>),
      change_colour(RESET),
      print(temperature_line(temperature, imperial))>>

\* display_weather_info(weather_data, imperial): [exc, msg, out], out the
\* terminal events written before it returns or raises.  Lines 124-128 read
\* the five fields before anything is written; formatting a null name (line
\* 131) raises after the first event, capitalize() on a description that is
\* no str (line 154) after the fourth.
display_weather_info(data, imperial) ==
    LET raise(e, m, o) == [exc |-> e, msg |-> m, out |-> o]
        first == data.weather[1]
        city == data.name
        weather_id == first.id
        weather_description == first.description
        temperature == data.temp
        events == display_events(city, weather_id, weather_description,
                                 temperature, imperial)
    IN IF data.kind # "dict"
       THEN raise("TypeError", <<"object is not subscriptable">>, <<>>)
       ELSE IF city.t = "missing" THEN raise("KeyError", <<"'name'">>, <<>>)
       ELSE IF ~data.has_weather THEN raise("KeyError", <<"'weather'">>, <<>>)
       ELSE IF data.weather = <<>>
       THEN raise("IndexError", <<"list index out of range">>, <<>>)
       ELSE IF weather_id.t = "missing" THEN raise("KeyError", <<"'id'">>, <<>>)
       ELSE IF weather_description.t = "missing"
       THEN raise("KeyError", <<"'description'">>, <<>>)
       ELSE IF temperature.t = "missing" THEN raise("KeyError", <<"'temp'">>, <<>>)
       ELSE IF data.country.t = "missing"
       THEN raise("KeyError", <<"'country'">>, <<>>)
       ELSE IF city.t = "null"
       THEN raise("TypeError",
                  <<"unsupported format string passed to NoneType.__format__">>,
                  SubSeq(events, 1, 1))
       ELSE IF weather_description.t # "str"
       THEN raise("AttributeError", <<"object has no attribute 'capitalize'">>,
                  SubSeq(events, 1, 4))
       ELSE raise("none", <<>>, events)

\* ----------------------------------------------------------------- inputs

Paris == <<"P", "a", "r", "i", "s">>
NewYork == << <<"N", "e", "w">>, <<"Y", "o", "r", "k">> >>

\* Command lines of Spec: no city, a one-word and a two-word city, with and
\* without -i and -h.
ArgvSet ==
    [city : {<<>>, <<Paris>>, NewYork}, imperial : BOOLEAN, help : BOOLEAN]

\* secrets.ini: absent, without the section, without the field, and with a
\* key that is plain, holds a space, or holds a "%".
SecretsSet ==
    {[file |-> FALSE, section |-> FALSE, field |-> FALSE, raw |-> <<>>],
     [file |-> TRUE, section |-> FALSE, field |-> FALSE, raw |-> <<>>],
     [file |-> TRUE, section |-> TRUE, field |-> FALSE, raw |-> <<>>]}
    \cup [file : {TRUE}, section : {TRUE}, field : {TRUE},
          raw : {<<"k", "9">>, <<"k", " ", "9">>, <<"k", "%", "9">>}]

\* HTTP statuses the service answers with.
Statuses == {200, 204, 400, 401, 403, 404, 500, 503}

ClearSky == <<"c", "l", "e", "a", "r", " ", "s", "k", "y">>

\* A response with every field the program reads, of the expected type.
Sample(id) ==
    [kind |-> "dict", name |-> StrV(Paris), has_weather |-> TRUE,
     weather |-> <<[id |-> IntV(id), description |-> StrV(ClearSky)]>>,
     temp |-> IntV(21), country |-> StrV(<<"F", "R">>)]

\* Conditions: the first entry of the list, alone or followed by a second.
Conditions ==
    LET firsts == [id : {IntV(800), IntV(201), Null, StrV(<<"8", "0", "0">>), Missing},
                   description : {StrV(ClearSky), StrV(<<"F", "O", "g">>), Null,
                                  IntV(5), Missing}]
        second == [id |-> IntV(500), description |-> StrV(<<"r", "a", "i", "n">>)]
    IN {<<f>> : f \in firsts} \cup {<<f, second>> : f \in firsts}

\* Decoded bodies: every code from -1 to MaxCode in a well-formed response,
\* responses whose fields are absent or of another type, and a JSON value
\* that is no object.
WeatherDataSet ==
    {Sample(id) : id \in (0 - 1)..MaxCode}
    \cup [kind : {"dict"}, name : {StrV(Paris), IntV(7), Null, Missing},
          has_weather : {TRUE}, weather : Conditions \cup {<<>>},
          temp : {IntV(21), IntV(0 - 3), Null, Missing},
          country : {StrV(<<"F", "R">>), Missing}]
    \cup [kind : {"dict"}, name : {StrV(Paris)}, has_weather : {FALSE},
          weather : {<<>>}, temp : {IntV(21)}, country : {StrV(<<"F", "R">>)}]
    \cup {[NoData EXCEPT !.kind = "nondict"]}

\* What the network can answer to the one request.
Replies ==
    {[kind |-> "transport", status |-> 0, body |-> "none", data |-> NoData]}
    \cup [kind : {"status"}, status : Statuses,
          body : {"malformed", "undecodable"}, data : {NoData}]
    \cup [kind : {"status"}, status : Statuses, body : {"json"},
          data : WeatherDataSet]

\* ---------------------------------------------------------------- the run

NoNet ==
    [called |-> FALSE, sent |-> FALSE, status |-> 0, body_read |-> FALSE,
     parsed |-> FALSE]

InitRun ==
    /\ pc = "start"
    /\ user_args = [city |-> <<>>, imperial |-> FALSE]
    /\ query_url = <<>>
    /\ net = NoNet
    /\ weather_data = NoData
    /\ stdout = <<>>
    /\ stderr = <<>>
    /\ exit_code = -1

Init ==
    /\ argv \in ArgvSet
    /\ tk_available \in BOOLEAN
    /\ secrets \in SecretsSet
    /\ InitRun

\* The process ends with status code after writing text to standard error.
Exit(code, text) ==
    /\ pc' = "exited"
    /\ exit_code' = code
    /\ stderr' = stderr \o text

\* Lines 3-9: "from turtle import st" needs tkinter.
ImportModules ==
    /\ pc = "start"
    /\ IF tk_available
       THEN /\ pc' = "imported"
            /\ UNCHANGED <<stderr, exit_code>>
       ELSE Exit(1, Traceback("ModuleNotFoundError", <<"No module named 'tkinter'">>))
    /\ UNCHANGED <<argv, tk_available, secrets, user_args, query_url, net,
                   weather_data, stdout>>

\* Line 162.
ReadUserCliArgs ==
    /\ pc = "imported"
    /\ LET r == read_user_cli_args
       IN IF r.exit = -1
          THEN /\ pc' = "args_read"
               /\ user_args' = [city |-> r.city, imperial |-> r.imperial]
               /\ UNCHANGED <<stdout, stderr, exit_code>>
          ELSE /\ Exit(r.exit, r.err)
               /\ stdout' = IF r.out = <<>> THEN stdout ELSE stdout \o <<print(r.out)>>
               /\ UNCHANGED user_args
    /\ UNCHANGED <<argv, tk_available, secrets, query_url, net, weather_data>>

\* Line 163.
BuildWeatherQuery ==
    /\ pc = "args_read"
    /\ LET r == build_weather_query(user_args.city, user_args.imperial)
       IN IF r.exc = "none"
          THEN /\ pc' = "query_built"
               /\ query_url' = r.url
               /\ UNCHANGED <<stderr, exit_code>>
          ELSE /\ Exit(1, Traceback(r.exc, r.msg))
               /\ UNCHANGED query_url
    /\ UNCHANGED <<argv, tk_available, secrets, user_args, net, weather_data,
                   stdout>>

\* Line 164.
GetWeatherData ==
    /\ pc = "query_built"
    /\ \E reply \in Replies :
         LET r == get_weather_data(query_url, reply)
         IN /\ net' = [called |-> TRUE, sent |-> r.sent, status |-> r.status,
                       body_read |-> r.body_read, parsed |-> r.parsed]
            /\ IF r.how = "return"
               THEN /\ pc' = "data_fetched"
                    /\ weather_data' = r.data
                    /\ UNCHANGED <<stderr, exit_code>>
               ELSE /\ Exit(1, IF r.how = "exit" THEN r.text
                                ELSE Traceback(r.exc, r.text))
                    /\ UNCHANGED weather_data
    /\ UNCHANGED <<argv, tk_available, secrets, user_args, query_url, stdout>>

\* Line 166, the last of the script.
DisplayWeatherInfo ==
    /\ pc = "data_fetched"
    /\ LET r == display_weather_info(weather_data, user_args.imperial)
       IN /\ stdout' = stdout \o r.out
          /\ IF r.exc = "none" THEN Exit(0, <<>>)
             ELSE Exit(1, Traceback(r.exc, r.msg))
    /\ UNCHANGED <<argv, tk_available, secrets, user_args, query_url, net,
                   weather_data>>

Next ==
    \/ ImportModules
    \/ ReadUserCliArgs
    \/ BuildWeatherQuery
    \/ GetWeatherData
    \/ DisplayWeatherInfo

Spec == Init /\ [][Next]_vars

\* ------------------------------------------------- the query builder alone

\* Characters of the city names of SpecQuery: the space, the characters a
\* query string gives a meaning to, and a digit and a letter that are also
\* hexadecimal digits, so that a name can itself look like an escape ("%2B").
CityChars == {" ", "+", "&", "=", "%", "2", "B"}

Strings(n) == UNION {[1..k -> CityChars] : k \in 0..n}

RECURSIVE CityInputs(_, _)
\* The lists of at most w words holding at most c characters in all.
CityInputs(w, c) ==
    IF w = 0 THEN {<<>>}
    ELSE {<<>>} \cup UNION {{<<s>> \o rest : rest \in CityInputs(w - 1, c - Len(s))} :
                            s \in Strings(c)}

InitQuery ==
    /\ argv \in [city : CityInputs(MaxWords, MaxCityChars) \ {<<>>},
                 imperial : BOOLEAN, help : {FALSE}]
    /\ tk_available = TRUE
    /\ secrets = [file |-> TRUE, section |-> TRUE, field |-> TRUE,
                  raw |-> <<"k", "9">>]
    /\ InitRun

NextQuery ==
    \/ ImportModules
    \/ ReadUserCliArgs
    \/ BuildWeatherQuery

\* The run up to the built URL, over every city name within the bounds.
SpecQuery == InitQuery /\ [][NextQuery]_vars

\* ------------------------------------------------------ reading the state

\* All text written to standard output, styles left out.
StdoutText ==
    Flatten([i \in 1..Len(stdout) |->
                IF stdout[i].k = "text" THEN stdout[i].v ELSE <<>>])

\* The style in force when event i is written: that of the last style event
\* before it, the terminal's own (RESET) when there is none.
StyleAt(i) ==
    IF \E j \in 1..(i - 1) : stdout[j].k = "style"
    THEN stdout[CHOOSE j \in 1..(i - 1) :
                    /\ stdout[j].k = "style"
                    /\ \A m \in (j + 1)..(i - 1) : stdout[m].k # "style"].v
    ELSE RESET

\* The response has every field display_weather_info reads, each of the
\* type the service documents.
WellFormed(d) ==
    /\ d.kind = "dict"
    /\ d.name.t = "str"
    /\ d.has_weather
    /\ d.weather # <<>>
    /\ d.weather[1].id.t = "int"
    /\ d.weather[1].description.t = "str"
    /\ d.temp.t = "int"
    /\ d.country.t = "str"

\* display_weather_info was called and the run is over.
Displayed == pc = "exited" /\ net.parsed

\* The range table of the specification, by comparisons.
TableColour(n) ==
    IF 200 <= n /\ n < 300 THEN RED
    ELSE IF 300 <= n /\ n < 400 THEN CYAN
    ELSE IF 500 <= n /\ n < 600 THEN BLUE
    ELSE IF 600 <= n /\ n < 700 THEN WHITE
    ELSE IF 700 <= n /\ n < 800 THEN BLUE
    ELSE IF n = 800 THEN YELLOW
    ELSE IF 801 <= n /\ n < 900 THEN WHITE
    ELSE RESET

\* The value of the q parameter of a built URL: what stands between "?q="
\* and the next "&".
QValue(url) ==
    LET i == CHOOSE i \in 1..Len(url) :
                 url[i] = "?" /\ \A j \in 1..(i - 1) : url[j] # "?"
        e == CHOOSE e \in (i + 3)..Len(url) :
                 url[e] = "&" /\ \A j \in (i + 3)..(e - 1) : url[j] # "&"
    IN SubSeq(url, i + 3, e - 1)

\* The character a %XX escape stands for, "" when the pair is none of the
\* escapes modelled.
Unescaped(h1, h2) ==
    CASE h1 = "2" /\ h2 = "0" -> " "
      [] h1 = "2" /\ h2 = "B" -> "+"
      [] h1 = "2" /\ h2 = "6" -> "&"
      [] h1 = "3" /\ h2 = "D" -> "="
      [] h1 = "2" /\ h2 = "5" -> "%"
      [] h1 = "2" /\ h2 = "F" -> "/"
      [] OTHER -> ""

RECURSIVE unquote(_)
\* urllib.parse.unquote: every %XX escape replaced by its character; a "%"
\* that starts no escape is kept.
unquote(q) ==
    IF q = <<>> THEN <<>>
    ELSE IF q[1] = "%" /\ Len(q) >= 3 /\ Unescaped(q[2], q[3]) # ""
    THEN <<Unescaped(q[2], q[3])>> \o unquote(SubSeq(q, 4, Len(q)))
    ELSE <<q[1]>> \o unquote(Tail(q))

\* urllib.parse.unquote_plus, the decoding of a query value: "+" is a space,
\* then unquote.
unquote_plus(q) ==
    unquote([i \in 1..Len(q) |-> IF q[i] = "+" THEN " " ELSE q[i]])

\* ------------------------------------------------------------------ claims

\* C1: for every integer code of a well-formed response the colour
\* display_weather_info selects is the one the range table gives (200-299
\* red, 300-399 cyan, 500-599 blue, 600-699 white, 700-799 blue, 800 yellow,
\* 801-899 white), every other code (400-499, below 200, 900 and up) selects
\* the reset style, and the call does not fail.
C1_ClassificationMatchesTable ==
    (Displayed /\ WellFormed(weather_data)) =>
        /\ exit_code = 0
        /\ Len(stdout) = 7
        /\ stdout[4] = [k |-> "style", v |-> TableColour(weather_data.weather[1].id.n)]

\* C1, reached: a response with code 800, the one code of the Clear range,
\* was displayed in yellow.
C1_Witness ==
    /\ Displayed
    /\ WellFormed(weather_data)
    /\ weather_data.weather[1].id.n = 800
    /\ stdout[4].v = YELLOW

\* C2: get_weather_data ends a 401 with the access-denied message, a 404 with
\* the city-not-found message, any other HTTP error status with a message
\* holding the status code, and a successful status whose body is no valid
\* JSON with the unreadable-response message; after an HTTP error status the
\* body is neither read nor parsed.
C2_EachFailureItsMessage ==
    (pc = "exited" /\ net.sent) =>
        /\ net.status = 401 =>
               /\ stderr = <<"Access denied.  Check your API key.">>
               /\ ~net.body_read /\ ~net.parsed
        /\ net.status = 404 =>
               /\ stderr = <<"Can't find weather data for this city.">>
               /\ ~net.body_read /\ ~net.parsed
        /\ (net.status # 0 /\ net.status \notin (200..299) \cup {401, 404}) =>
               /\ StartsWith(stderr, <<"Something went wrong... (">>)
               /\ Contains(stderr, IntStr(net.status))
               /\ ~net.body_read /\ ~net.parsed
        /\ (net.status \in 200..299 /\ net.body_read /\ ~net.parsed) =>
               stderr = <<"Couldn't read the server response.">>

\* C3: whatever the outcome of the one request, get_weather_data either
\* returns the parsed data or ends the process with exactly one of its four
\* messages.
C3_ReturnsOrOneOfFourMessages ==
    net.called =>
        \/ net.parsed
        \/ /\ pc = "exited"
           /\ \/ stderr = <<"Access denied.  Check your API key.">>
              \/ stderr = <<"Can't find weather data for this city.">>
              \/ \E s \in Statuses :
                     stderr = <<"Something went wrong... (">> \o IntStr(s) \o <<")">>
              \/ stderr = <<"Couldn't read the server response.">>

\* C4: the request is made, and a URL exists, only after _get_api_key has
\* returned a key; a run whose credential load fails builds no URL and calls
\* urlopen never.
C4_NoRequestWithoutKey ==
    /\ (net.called \/ net.sent \/ query_url # <<>>) => _get_api_key.exc = "none"
    /\ _get_api_key.exc # "none" =>
           /\ query_url = <<>>
           /\ ~net.called /\ ~net.sent
           /\ pc \notin {"query_built", "data_fetched"}

\* C4, reached: with a city on the command line and no usable credential the
\* run has ended in build_weather_query, no URL built and no request made.
C4_Witness ==
    /\ pc = "exited"
    /\ user_args.city # <<>>
    /\ _get_api_key.exc = "KeyError"
    /\ exit_code = 1
    /\ query_url = <<>>
    /\ ~net.called

\* The whole pipeline succeeded: arguments parsed, credential loaded and URL
\* built, request answered with a successful status, JSON decoded, line
\* printed to its end.
PipelineSucceeded ==
    /\ user_args.city # <<>>
    /\ _get_api_key.exc = "none" /\ query_url # <<>>
    /\ net.sent /\ net.status \in 200..299
    /\ net.parsed
    /\ Len(stdout) = 7
    /\ stdout[7].k = "text" /\ stdout[7].v[Len(stdout[7].v)] = "\n"

\* The failures C5 lists each end with a non-zero status.
ListedFailuresNonZero ==
    /\ (~argv.help /\ argv.city = <<>> /\ tk_available) => exit_code = 2
    /\ (user_args.city # <<>> /\ _get_api_key.exc # "none") => exit_code # 0
    /\ (net.sent /\ net.status # 0 /\ net.status \notin 200..299) => exit_code # 0
    /\ (net.body_read /\ ~net.parsed) => exit_code # 0

\* C5 as stated: the exit code is 0 exactly when the whole pipeline
\* succeeded, and non-zero after a missing city argument, a credential load
\* failure, an HTTP error status or a JSON decode failure.
C5_ExitZeroIffPipelineSucceeded ==
    pc = "exited" =>
        /\ exit_code = 0 <=> PipelineSucceeded
        /\ ListedFailuresNonZero

\* C5 as amended: the exit code is 0 exactly when the whole pipeline
\* succeeded or -h/--help was given and the help printed; it is non-zero
\* after each of the listed failures.
C5_ExitZeroIffSucceededOrHelp ==
    pc = "exited" =>
        /\ exit_code = 0 <=> (PipelineSucceeded \/ (argv.help /\ tk_available))
        /\ ListedFailuresNonZero

\* C5, reached: -h was given, the help was printed and the run ended with
\* status 0 without any stage of the pipeline.
C5_Witness ==
    /\ pc = "exited"
    /\ argv.help
    /\ exit_code = 0
    /\ stdout # <<>>
    /\ ~PipelineSucceeded

\* C6: for a well-formed response the text written holds the city name, the
\* capitalized description of the first condition, and the temperature
\* immediately followed by the degree mark and the unit letter (F when
\* imperial, C otherwise).
C6_LineHoldsCityDescriptionTemperature ==
    (Displayed /\ WellFormed(weather_data)) =>
        /\ Contains(StdoutText, weather_data.name.s)
        /\ Contains(StdoutText, capitalize(weather_data.weather[1].description.s))
        /\ Contains(StdoutText,
                    IntStr(weather_data.temp.n)
                    \o <<"U+00B0", IF user_args.imperial THEN "F" ELSE "C">>)

\* C7: nothing written to standard output or standard error holds the query
\* URL or the API key.
C7_NoSecretWritten ==
    /\ secrets.field =>
           /\ ~Contains(stderr, secrets.raw)
           /\ ~Contains(StdoutText, secrets.raw)
    /\ query_url # <<>> =>
           /\ ~Contains(stderr, query_url)
           /\ ~Contains(StdoutText, query_url)

\* C8: the q value of the built URL is the encoding of the city words joined
\* with single spaces, and decoding it as a query value gives back the
\* joined city name, whatever characters the name holds.
C8_CityRoundTrips ==
    pc = "query_built" =>
        /\ QValue(query_url) = quote_plus(Join(argv.city))
        /\ unquote_plus(QValue(query_url)) = Join(argv.city)

\* C8, reached: a URL was built for the two words "%" and "+".
C8_Witness ==
    /\ pc = "query_built"
    /\ argv.city = << <<"%">>, <<"+">> >>
    /\ QValue(query_url) = <<"%", "2", "5", "+", "%", "2", "B">>

C10_NoPartialOutputOnError ==
    (pc = "exited" /\ exit_code # 0) => StdoutText = <<>>

====
